---- MODULE Spec2Model ----
(***************************************************************************)
(* Model of the package-conflict resolver of src/solution.py              *)
(* (EnhancedAIConflictResolver and main) and of the decoder               *)
(* safe_json_parse of src/runthis.py.                                     *)
(*                                                                        *)
(* One run of main() is one behaviour.  The environment is the diagnosis  *)
(* file, the command line, the outcome of every shell command and the     *)
(* reply of every oracle call.  A second specification, SpecCalls, is    *)
(* one call of execute_command or of safe_json_parse on any input up to   *)
(* a bounded length, or one call of apply_solution on one solution.       *)
(***************************************************************************)
EXTENDS Integers, Sequences, FiniteSets, TLC

\* ------------------------------------------------------------------ bounds
\* The outcome of the first MaxFreeRuns command invocations of a run is
\* free; later invocations exit with a non-zero code.
MaxFreeRuns == 3
\* The reply of the first MaxFreeConsults oracle calls of a run is free;
\* later calls answer with a well-formed payload carrying a queue of one.
MaxFreeConsults == 1

\* ------------------------------------------------------- program constants
max_total_iterations == 20
DefaultMaxAiIterations == 8
DefaultPriority == 999

\* --------------------------------------------------------------- solutions
\* A solution is a JSON object; "keys" is the set of keys it carries, so
\* that dict.get(key, default) is modelled as the code computes it.
Get(d, k, default) == IF k \in d.keys THEN d[k] ELSE default

MkSol(keys, d, t, p, u, c, v) ==
    [keys |-> keys, description |-> d, solution_type |-> t, priority |-> p,
     priority_is_int |-> TRUE,
     undo_commands |-> u, commands |-> c, verification_command |-> v]

AllKeys == {"description", "solution_type", "priority", "undo_commands",
            "commands", "verification_command"}

\* commands-type, one command, with a verification command
SolA == MkSol(AllKeys, "A", "commands", 1, <<>>, <<"a1">>, "va")
\* commands-type, undo command, two commands, no verification command
SolB == MkSol(AllKeys \ {"verification_command"}, "B", "commands", 2,
              <<"ub">>, <<"b1", "b2">>, "")
\* commands-type, same priority as SolA, with a verification command
SolC == MkSol(AllKeys, "C", "commands", 1, <<>>, <<"c1">>, "vc")
\* commands-type, first in priority, empty command list
SolE == MkSol(AllKeys, "E", "commands", 0, <<>>, <<>>, "ve")
\* a manual action carrying undo and main commands
SolU == MkSol(AllKeys, "U", "user_action", 0, <<"uu">>, <<"u1">>, "vu")
\* the queue an oracle reply carries
SolF == MkSol(AllKeys, "F", "commands", 1, <<>>, <<"f1">>, "vf")
\* commands-type, no priority key, no verification command
SolG == MkSol(AllKeys \ {"priority", "verification_command"}, "G", "commands",
              0, <<>>, <<"g1">>, "")

\* commands-type, last in priority, no verification command
SolH == MkSol(AllKeys \ {"verification_command"}, "H", "commands", 3, <<>>,
              <<"h1">>, "")
\* commands-type, the priority written as a string
SolS == [MkSol(AllKeys, "S", "commands", 1, <<>>, <<"s1">>, "vs")
         EXCEPT !.priority_is_int = FALSE]

\* commands-type, two undo commands, one command, no verification command
SolD == MkSol(AllKeys \ {"verification_command"}, "D", "commands", 1,
              <<"d1", "d2">>, <<"d3">>, "")

\* variant: the queue is not filtered
FilterCommands_KeepsAll(seq) == seq

\* list comprehension [s for s in seq if s.get('solution_type') == 'commands']
RECURSIVE FilterCommands(_)
FilterCommands(seq) ==
    IF seq = <<>> THEN <<>>
    ELSE IF Get(Head(seq), "solution_type", "") = "commands"
         THEN <<Head(seq)>> \o FilterCommands(Tail(seq))
         ELSE FilterCommands(Tail(seq))

\* key=lambda x: x.get('priority', 999)
PriorityKey(s) == Get(s, "priority", DefaultPriority)

\* list.sort is stable: an element goes after every element whose key is
\* less than or equal to its own.
RECURSIVE InsertByPriority(_, _)
InsertByPriority(s, sorted) ==
    IF sorted = <<>> THEN <<s>>
    ELSE IF PriorityKey(Head(sorted)) <= PriorityKey(s)
         THEN <<Head(sorted)>> \o InsertByPriority(s, Tail(sorted))
         ELSE <<s>> \o sorted

\* list.sort raises TypeError when it compares keys of different types
KeyIsInt(s) == IF "priority" \in s.keys THEN s.priority_is_int ELSE TRUE

SortRaises(seq) ==
    \E m, n \in 1..Len(seq) : KeyIsInt(seq[m]) # KeyIsInt(seq[n])

RECURSIVE SortByPriority(_)
SortByPriority(seq) ==
    IF seq = <<>> THEN <<>>
    ELSE InsertByPriority(seq[Len(seq)],
                          SortByPriority(SubSeq(seq, 1, Len(seq) - 1)))

\* ------------------------------------------------------------ the decoder
\* A text is a sequence of tokens: "{" "}" "[" "]", " " (whitespace), "x"
\* (any other character of prose) and body tokens, each standing for the
\* members of one JSON object.
BodyTokens == {"fresh", "next", "stop", "stopq", "useronly", "nokey", "badrca"}
Tokens == {"{", "}", "[", "]", " ", "x"} \cup BodyTokens

MkPayload(keys, status, sols, cont, raw) ==
    [is_object |-> TRUE, keys |-> keys, overall_status |-> status,
     recommended_solutions |-> sols, should_continue |-> cont,
     root_cause_is_str |-> TRUE, raw_response |-> raw]

\* a decoded JSON value that is not an object (a list)
NonObject == [is_object |-> FALSE, keys |-> {}, overall_status |-> "",
              recommended_solutions |-> <<>>, should_continue |-> TRUE,
              root_cause_is_str |-> TRUE, raw_response |-> <<>>]

\* the members each body token stands for
ObjectOf(body) ==
    CASE body = "fresh" ->
           MkPayload({"recommended_solutions", "root_cause_analysis"}, "",
                     <<SolH, SolU, SolF>>, TRUE, <<>>)
      [] body = "next" ->
           MkPayload({"recommended_solutions", "new_strategy"}, "",
                     <<SolF>>, TRUE, <<>>)
      [] body = "stop" ->
           MkPayload({"recommended_solutions", "should_continue", "next_steps"},
                     "", <<>>, FALSE, <<>>)
      [] body = "stopq" ->
           MkPayload({"recommended_solutions", "should_continue"}, "",
                     <<SolF>>, FALSE, <<>>)
      [] body = "useronly" ->
           MkPayload({"recommended_solutions", "should_continue"}, "",
                     <<SolU>>, TRUE, <<>>)
      [] body = "nokey" ->
           MkPayload({"should_continue"}, "", <<>>, TRUE, <<>>)
      [] body = "badrca" ->
           [MkPayload({"recommended_solutions", "root_cause_analysis"}, "",
                      <<SolF>>, TRUE, <<>>)
            EXCEPT !.root_cause_is_str = FALSE]
      [] OTHER -> MkPayload({}, "", <<>>, TRUE, <<>>)

IsSpace(t) == t = " "

RECURSIVE StripLeft(_)
StripLeft(text) ==
    IF text # <<>> /\ IsSpace(Head(text)) THEN StripLeft(Tail(text)) ELSE text

RECURSIVE StripRight(_)
StripRight(text) ==
    IF text # <<>> /\ IsSpace(text[Len(text)])
    THEN StripRight(SubSeq(text, 1, Len(text) - 1))
    ELSE text

\* the text of one JSON object
IsObjectText(t) ==
    \/ Len(t) = 3 /\ t[1] = "{" /\ t[2] \in BodyTokens /\ t[3] = "}"
    \/ t = <<"{", "}">>

\* the text of one JSON list: empty, or holding one object or list
RECURSIVE IsListText(_)
IsListText(t) ==
    /\ Len(t) >= 2
    /\ t[1] = "["
    /\ t[Len(t)] = "]"
    /\ LET inner == StripRight(StripLeft(SubSeq(t, 2, Len(t) - 1)))
       IN  inner = <<>> \/ IsObjectText(inner) \/ IsListText(inner)

\* json.loads: surrounding whitespace is skipped, the rest must be exactly
\* one JSON value.  ok = FALSE stands for json.JSONDecodeError.
JsonLoads(text) ==
    LET t == StripRight(StripLeft(text))
    IN  IF Len(t) = 3 /\ t[1] = "{" /\ t[2] \in BodyTokens /\ t[3] = "}"
        THEN [ok |-> TRUE, value |-> ObjectOf(t[2])]
        ELSE IF t = <<"{", "}">>
        THEN [ok |-> TRUE, value |-> MkPayload({}, "", <<>>, TRUE, <<>>)]
        ELSE IF IsListText(t)
        THEN [ok |-> TRUE, value |-> NonObject]
        ELSE [ok |-> FALSE, value |-> NonObject]

\* str.find / str.rfind, 1-based; 0 stands for Python's -1
Find(text, tok) ==
    IF \E n \in 1..Len(text) : text[n] = tok
    THEN CHOOSE n \in 1..Len(text) :
             text[n] = tok /\ \A m \in 1..(n - 1) : text[m] # tok
    ELSE 0

RFind(text, tok) ==
    IF \E n \in 1..Len(text) : text[n] = tok
    THEN CHOOSE n \in 1..Len(text) :
             text[n] = tok /\ \A m \in (n + 1)..Len(text) : text[m] # tok
    ELSE 0

\* variant: the sentinel does not carry the text
Sentinel_NoRaw(text) ==
    MkPayload({"overall_status", "summary", "issues_found",
               "recommended_solutions", "prevention_tips", "raw_response"},
              "critical_error", <<>>, TRUE, <<>>)

\* the structured error of lines 49-56
Sentinel(text) ==
    MkPayload({"overall_status", "summary", "issues_found",
               "recommended_solutions", "prevention_tips", "raw_response"},
              "critical_error", <<>>, TRUE, text)

\* variant: no search for a JSON block after the direct parse failed
safe_json_parse_DirectOnly(response_text) ==
    LET direct == JsonLoads(response_text)
    IN  IF direct.ok THEN direct.value ELSE Sentinel(response_text)

\* safe_json_parse (runthis.py lines 32-56)
safe_json_parse(response_text) ==
    LET direct == JsonLoads(response_text)
        start  == Find(response_text, "{")
        end    == RFind(response_text, "}")
        block  == JsonLoads(SubSeq(response_text, start, end))
    IN  IF direct.ok THEN direct.value
        ELSE IF start # 0 /\ end >= start /\ block.ok THEN block.value
        ELSE Sentinel(response_text)

\* ------------------------------------------------------------- the oracle
\* What addhistory does: raise, return nothing, or return a response whose
\* last entry's 'llm' object (ai_data) holds main_response.
MkReply(kind, is_str, text, ai_keys) ==
    [kind |-> kind, is_str |-> is_str, text |-> text, ai_keys |-> ai_keys]

StrReply(text) == MkReply("response", TRUE, text, {"main_response"})

NextReply == StrReply(<<"{", "next", "}">>)

OracleReplies ==
    { MkReply("raise", FALSE, <<>>, {}),
      MkReply("falsy", FALSE, <<>>, {}),
      NextReply,
      StrReply(<<"{", "fresh", "}">>),
      StrReply(<<"x", " ", "{", "fresh", "}", " ", "x">>),
      StrReply(<<"{", "stop", "}">>),
      StrReply(<<"{", "stopq", "}">>),
      StrReply(<<"{", "useronly", "}">>),
      StrReply(<<"{", "nokey", "}">>),
      StrReply(<<"{", "badrca", "}">>),
      StrReply(<<"x", "x">>),
      StrReply(<<"[", "]">>),
      MkReply("response", FALSE, <<>>, {"main_response"}),
      MkReply("response", FALSE, <<>>,
              {"main_response", "recommended_solutions"}) }

\* ai_data itself, returned by the fallback when it carries the key; the
\* model gives it the queue of the "next" payload.
AiData(reply) ==
    MkPayload(reply.ai_keys, "", <<SolF>>, TRUE, <<>>)

\* Optional[Dict]: <<>> is None, <<d>> is the dict d.
None == <<>>
Some(d) == <<d>>

\* trigger_web_search_consultation from the oracle call on (lines 285-341)
ConsultationResult(reply) ==
    IF reply.kind = "raise" THEN None
    ELSE IF reply.kind = "falsy" THEN None
    ELSE LET parsed == safe_json_parse(reply.text)
         IN  IF reply.is_str /\ parsed.is_object
                /\ "recommended_solutions" \in parsed.keys
             THEN Some(parsed)
             ELSE IF "recommended_solutions" \in reply.ai_keys
             THEN Some(AiData(reply))
             ELSE None

\* ------------------------------------------------------ the command runner
\* What subprocess.run does: exit with a return code and an output, time
\* out, or fail to launch.  An output is a sequence of words.
MkOutcome(kind, rc, output) == [kind |-> kind, returncode |-> rc, output |-> output]

\* the words an output is made of
OutputWords == {"ok", "error", "error:", "ERROR:", "Failed", "could not", "conflicts"}

\* str.lower() on one word
lower(word) ==
    CASE word = "ERROR:" -> "error:"
      [] word = "Failed" -> "failed"
      [] OTHER -> word

\* the markers of line 142
ErrorMarkers == {"error:", "failed", "could not", "conflict"}

\* err in word, for a lower-cased word
Contains(word, err) == word = err \/ (word = "conflicts" /\ err = "conflict")

\* variant: the markers are sought in the output as it is
has_error_CaseSensitive(output) ==
    \E err \in ErrorMarkers : \E n \in 1..Len(output) : Contains(output[n], err)

\* any(err in output.lower() for err in [...]) (line 142)
has_error(output) ==
    \E err \in ErrorMarkers : \E n \in 1..Len(output) :
        Contains(lower(output[n]), err)

Outcomes ==
    { MkOutcome("exit", rc, out) : rc \in {0, 1}, out \in {<<"ok">>, <<"ERROR:">>} }
    \cup { MkOutcome("timeout", 0, <<>>), MkOutcome("oserror", 0, <<>>) }

FailOutcome == MkOutcome("exit", 1, <<"ok">>)

\* actual_success = success and not has_error (lines 141-143)
actual_success(o) == o.returncode = 0 /\ ~has_error(o.output)

\* variant: a command that timed out or did not launch is reported as a
\* success
execute_command_TimeoutSucceeds(log, command, description, o) ==
    IF o.kind = "exit"
    THEN [log |-> Append(log, [command |-> command,
                               success |-> actual_success(o),
                               description |-> description]),
          success |-> actual_success(o)]
    ELSE [log |-> log, success |-> TRUE]

\* execute_command: the log after the call and the returned success.  Of
\* a log entry the model keeps command, success and description.
execute_command(log, command, description, o) ==
    IF o.kind = "exit"
    THEN [log |-> Append(log, [command |-> command,
                               success |-> actual_success(o),
                               description |-> description]),
          success |-> actual_success(o)]
    ELSE [log |-> log, success |-> FALSE]

\* --------------------------------------------------------- the diagnosis
\* The file json_path names: missing, not JSON, not readable, a JSON list,
\* or a JSON object, which may wrap the diagnosis as data.llm.
MkDiag(keys, status, sols) ==
    [is_object |-> TRUE, keys |-> keys, overall_status |-> status,
     recommended_solutions |-> sols]

\* a diagnosis file holding a JSON list
DiagList == [MkDiag({}, "", <<>>) EXCEPT !.is_object = FALSE]

MkFile(kind, nested, body) == [kind |-> kind, nested |-> nested, body |-> body]

DiagKeys == {"overall_status", "summary", "recommended_solutions"}

Diagnoses ==
    { MkDiag(DiagKeys, "success", <<SolA>>),
      MkDiag(DiagKeys \ {"recommended_solutions"}, "conflicts", <<>>),
      MkDiag(DiagKeys, "conflicts", <<>>),
      MkDiag(DiagKeys, "conflicts", <<SolU>>),
      MkDiag(DiagKeys, "conflicts", <<SolA>>),
      MkDiag(DiagKeys, "conflicts", <<SolB, SolU, SolA>>),
      MkDiag(DiagKeys, "conflicts", <<SolA, SolE, SolC>>),
      MkDiag(DiagKeys, "conflicts", <<SolA, SolS>>),
      MkDiag(DiagKeys \ {"overall_status"}, "", <<SolG>>) }

DiagnosisFiles ==
    { MkFile("missing", FALSE, MkDiag({}, "", <<>>)),
      MkFile("invalid", FALSE, MkDiag({}, "", <<>>)),
      MkFile("unreadable", FALSE, MkDiag({}, "", <<>>)),
      MkFile("json", FALSE, DiagList) }
    \cup { MkFile("json", n, d) : n \in BOOLEAN, d \in Diagnoses }

\* --max-ai-iterations
MaxAiChoices == {0, 1, DefaultMaxAiIterations, max_total_iterations}

\* ------------------------------------------------------------------ state
VARIABLES
    pc,                     \* where the run is
    HAS_AI,                 \* module global, after --no-ai is applied
    max_ai_iterations,      \* EnhancedAIConflictResolver fields
    data,
    execution_log,
    ai_consultation_count,
    web_search_count,
    solved,
    solution_history,
    solutions,              \* locals of continuous_resolution_loop
    iteration,
    consecutive_failures,
    success_count,
    all_failed_commands,
    i,
    ai_response,
    k,                      \* locals of apply_solution
    all_success,
    failed_commands,
    ret,                    \* what apply_solution returned
    result,                 \* what continuous_resolution_loop returned
    saved_log,              \* the file save_execution_log wrote
    exit_code,              \* the status sys.exit was given
    apply_calls,            \* history: calls of apply_solution started
    runner_calls,           \* history: calls of execute_command started
    consult_calls,          \* history: calls of trigger_web_search_consultation
    oracle_calls,           \* history: calls of addhistory made
    probe                   \* one call of a function on its own: input, output

vars == <<pc, HAS_AI, max_ai_iterations, data, execution_log,
          ai_consultation_count, web_search_count, solved, solution_history,
          solutions, iteration, consecutive_failures, success_count,
          all_failed_commands, i, ai_response, k, all_success,
          failed_commands, ret, result, saved_log, exit_code,
          apply_calls, runner_calls, consult_calls, oracle_calls, probe>>

config   == <<HAS_AI, max_ai_iterations>>
counters == <<ai_consultation_count, web_search_count>>
applyLoc == <<k, all_success, failed_commands, ret>>
mainLoc  == <<saved_log, exit_code>>

\* __init__ (lines 27-36) and the locals before their first assignment
Fields0 ==
    /\ data = None
    /\ execution_log = <<>>
    /\ ai_consultation_count = 0
    /\ web_search_count = 0
    /\ solved = FALSE
    /\ solution_history = <<>>
    /\ iteration = 0
    /\ consecutive_failures = 0
    /\ success_count = 0
    /\ all_failed_commands = <<>>
    /\ i = 1
    /\ ai_response = None
    /\ k = 1
    /\ all_success = TRUE
    /\ failed_commands = <<>>
    /\ ret = [success |-> FALSE, failed |-> <<>>]
    /\ result = None
    /\ saved_log = None
    /\ exit_code = None
    /\ apply_calls = 0
    /\ runner_calls = 0
    /\ consult_calls = 0
    /\ oracle_calls = 0

\* __init__ (lines 27-36), after main() applied --no-ai (lines 637-639)
Init ==
    /\ pc = "load"
    /\ HAS_AI \in BOOLEAN
    /\ max_ai_iterations \in MaxAiChoices
    /\ Fields0
    /\ solutions = <<>>
    /\ probe = None

\* what the environment may answer to the next command / oracle call
RunEnv == IF runner_calls < MaxFreeRuns THEN Outcomes ELSE {FailOutcome}
OracleEnv == IF oracle_calls < MaxFreeConsults THEN OracleReplies ELSE {NextReply}

\* ---------------------------------------------------------------- actions
\* load_json (lines 52-69)
load_json(file) ==
    IF file.kind = "json" THEN Some(file.body) ELSE None

\* open() or json.load raising something load_json does not catch
\* (lines 54-69)
LoadRaises(file) == file.kind = "unreadable"

\* self.data.get(...) on a value that is not a dict (line 102)
SummaryRaises(d) == ~d.is_object

\* continuous_resolution_loop up to the while loop (lines 421-451)
LoadJson ==
    /\ pc = "load"
    /\ \E file \in DiagnosisFiles :
         LET loaded == load_json(file)
             raw    == Get(loaded[1], "recommended_solutions", <<>>)
         IN  IF LoadRaises(file)
             THEN /\ pc' = "crashed"
                  /\ UNCHANGED <<data, result, solutions>>
             ELSE
             /\ data' = loaded
             /\ IF loaded = None
                THEN /\ result' = Some(FALSE)
                     /\ pc' = "returned"
                     /\ UNCHANGED solutions
                ELSE IF SummaryRaises(loaded[1])
                THEN /\ pc' = "crashed"
                     /\ UNCHANGED <<result, solutions>>
                ELSE IF Get(loaded[1], "overall_status", "") = "success"
                THEN /\ result' = Some(TRUE)
                     /\ pc' = "returned"
                     /\ UNCHANGED solutions
                ELSE IF raw = <<>>
                THEN /\ result' = Some(FALSE)
                     /\ pc' = "returned"
                     /\ UNCHANGED solutions
                ELSE IF SortRaises(FilterCommands(raw))
                THEN /\ solutions' = FilterCommands(raw)
                     /\ pc' = "crashed"
                     /\ UNCHANGED result
                ELSE /\ solutions' = SortByPriority(FilterCommands(raw))
                     /\ pc' = "while"
                     /\ UNCHANGED result
    /\ iteration' = 0
    /\ consecutive_failures' = 0
    /\ UNCHANGED <<probe, config, counters, execution_log, solved, solution_history,
                   success_count, all_failed_commands, i, ai_response,
                   applyLoc, mainLoc, apply_calls, runner_calls, consult_calls, oracle_calls>>

\* variant: the pass cap tested with <= instead of <
WhileCondition_OffByOne == iteration <= max_total_iterations /\ ~solved

\* the loop condition (line 453)
WhileCondition == iteration < max_total_iterations /\ ~solved

\* the head of one pass (lines 453-467); leaving the loop returns False
\* (lines 559-572)
WhileHead ==
    /\ pc = "while"
    /\ IF WhileCondition
       THEN /\ iteration' = iteration + 1
            /\ IF solutions = <<>>
               THEN /\ result' = Some(FALSE)
                    /\ pc' = "returned"
                    /\ UNCHANGED <<success_count, all_failed_commands, i>>
               ELSE /\ success_count' = 0
                    /\ all_failed_commands' = <<>>
                    /\ i' = 1
                    /\ pc' = "apply"
                    /\ UNCHANGED result
       ELSE /\ result' = Some(FALSE)
            /\ pc' = "returned"
            /\ UNCHANGED <<iteration, success_count, all_failed_commands, i>>
    /\ UNCHANGED <<probe, config, counters, data, execution_log, solved,
                   solution_history, solutions, consecutive_failures,
                   ai_response, applyLoc, mainLoc, apply_calls, runner_calls,
                   consult_calls, oracle_calls>>

\* the solution the for loop is at (line 470)
solution == solutions[i]

\* where apply_solution goes once the undo commands are done (lines 375-381,
\* 415-417): on to the main commands, or back with (False, [])
AfterUndoPc(sol) ==
    IF Get(sol, "solution_type", "") = "commands"
       /\ Get(sol, "commands", <<>>) # <<>>
    THEN "main" ELSE "applied"

\* the entry apply_solution appends to solution_history (lines 359-364)
HistoryEntry(sol, solution_num) ==
    [solution_num |-> solution_num,
     description |-> Get(sol, "description", ""),
     commands |-> Get(sol, "commands", <<>>)]

\* variant: the attempt recorded only after the empty-commands return
RecordAttempt_AfterEmptyCheck(history, sol, solution_num) ==
    IF Get(sol, "commands", <<>>) = <<>> THEN history
    ELSE Append(history, HistoryEntry(sol, solution_num))

\* variant: the new entry replaces the history
RecordAttempt_Overwrites(history, sol, solution_num) ==
    <<HistoryEntry(sol, solution_num)>>

\* self.solution_history.append(...) (line 359)
RecordAttempt(history, sol, solution_num) ==
    Append(history, HistoryEntry(sol, solution_num))

\* apply_solution up to its first command (lines 343-381)
ApplyStart ==
    /\ pc = "apply"
    /\ apply_calls' = apply_calls + 1
    /\ solution_history' = RecordAttempt(solution_history, solution, i)
    /\ failed_commands' = <<>>
    /\ all_success' = TRUE
    /\ k' = 1
    /\ ret' = [success |-> FALSE, failed |-> <<>>]
    /\ pc' = IF Get(solution, "undo_commands", <<>>) # <<>>
             THEN "undo" ELSE AfterUndoPc(solution)
    /\ UNCHANGED <<probe, config, counters, data, execution_log, solved, solutions,
                   iteration, consecutive_failures, success_count,
                   all_failed_commands, i, ai_response, result, mainLoc,
                   runner_calls, consult_calls, oracle_calls>>

\* variant: a failing undo command ends the undo phase and is collected
\* like a failing main command
ExecUndo_FailureCounts ==
    /\ pc = "undo"
    /\ \E o \in RunEnv :
         LET undo_commands == Get(solution, "undo_commands", <<>>)
             run == execute_command(execution_log, undo_commands[k],
                                    "Undo previous changes", o)
         IN  /\ execution_log' = run.log
             /\ failed_commands' =
                   IF run.success THEN failed_commands
                   ELSE Append(failed_commands, [command |-> undo_commands[k],
                                                 exit_code |-> 1])
             /\ all_success' = (all_success /\ run.success)
             /\ IF run.success /\ k < Len(undo_commands)
                THEN /\ k' = k + 1
                     /\ pc' = "undo"
                ELSE /\ k' = 1
                     /\ pc' = AfterUndoPc(solution)
    /\ runner_calls' = runner_calls + 1
    /\ UNCHANGED <<probe, config, counters, data, solved, solution_history,
                   solutions, iteration, consecutive_failures, success_count,
                   all_failed_commands, i, ai_response, ret, result, mainLoc,
                   apply_calls, consult_calls, oracle_calls>>

\* one undo command (lines 367-372)
ExecUndo ==
    /\ pc = "undo"
    /\ \E o \in RunEnv :
         LET undo_commands == Get(solution, "undo_commands", <<>>)
             run == execute_command(execution_log, undo_commands[k],
                                    "Undo previous changes", o)
         IN  execution_log' = run.log
    /\ runner_calls' = runner_calls + 1
    /\ IF k < Len(Get(solution, "undo_commands", <<>>))
       THEN /\ k' = k + 1
            /\ pc' = "undo"
       ELSE /\ k' = 1
            /\ pc' = AfterUndoPc(solution)
    /\ UNCHANGED <<probe, config, counters, data, solved, solution_history,
                   solutions, iteration, consecutive_failures, success_count,
                   all_failed_commands, i, ai_response, all_success,
                   failed_commands, ret, result, mainLoc, apply_calls,
                   consult_calls, oracle_calls>>

\* the entry a failing main command adds to failed_commands (lines 391-395)
FailedEntry(cmd) == [command |-> cmd, exit_code |-> 1]

\* variant: the verification command is run whatever the main commands did
RunsVerification_Always(sol, ok) == Get(sol, "verification_command", "") # ""

\* variant: a failing command replaces what was collected before
CollectFailed_KeepsLast(failed, cmd, success) ==
    IF success THEN failed ELSE <<FailedEntry(cmd)>>

\* if not success: failed_commands.append(...) (lines 389-395)
CollectFailed(failed, cmd, success) ==
    IF success THEN failed ELSE Append(failed, FailedEntry(cmd))

\* whether apply_solution runs the verification command (line 400)
RunsVerification(sol, ok) == ok /\ Get(sol, "verification_command", "") # ""

\* one main command (lines 386-397), and after the last one the decision
\* of line 400
ExecMain ==
    /\ pc = "main"
    /\ \E o \in RunEnv :
         LET commands == Get(solution, "commands", <<>>)
             run == execute_command(execution_log, commands[k], "", o)
             ok  == all_success /\ run.success
             failed == CollectFailed(failed_commands, commands[k], run.success)
         IN  /\ execution_log' = run.log
             /\ all_success' = ok
             /\ failed_commands' = failed
             /\ IF k < Len(commands)
                THEN /\ k' = k + 1
                     /\ pc' = "main"
                     /\ UNCHANGED ret
                ELSE /\ k' = 1
                     /\ IF RunsVerification(solution, ok)
                        THEN /\ pc' = "verify"
                             /\ UNCHANGED ret
                        ELSE /\ pc' = "applied"
                             /\ ret' = [success |-> ok, failed |-> failed]
    /\ runner_calls' = runner_calls + 1
    /\ UNCHANGED <<probe, config, counters, data, solved, solution_history,
                   solutions, iteration, consecutive_failures, success_count,
                   all_failed_commands, i, ai_response, result, mainLoc,
                   apply_calls, consult_calls, oracle_calls>>

\* the verification command (lines 400-413)
ExecVerify ==
    /\ pc = "verify"
    /\ \E o \in RunEnv :
         LET run == execute_command(execution_log,
                                    solution.verification_command,
                                    "Verify solution", o)
         IN  /\ execution_log' = run.log
             /\ solved' = (solved \/ run.success)
             /\ all_success' = run.success
             /\ ret' = [success |-> run.success, failed |-> failed_commands]
    /\ runner_calls' = runner_calls + 1
    /\ pc' = "applied"
    /\ UNCHANGED <<probe, config, counters, data, solution_history, solutions,
                   iteration, consecutive_failures, success_count,
                   all_failed_commands, i, ai_response, k, failed_commands,
                   result, mainLoc, apply_calls, consult_calls, oracle_calls>>

\* the for loop moves to its next solution, or ends (line 470)
NextPc == IF i + 1 <= Len(solutions) THEN "apply" ELSE "after_for"

\* the loop body once apply_solution returned (lines 471-476, 495-498)
AfterApply ==
    /\ pc = "applied"
    /\ IF ret.success
       THEN /\ success_count' = success_count + 1
            /\ consecutive_failures' = 0
            /\ pc' = "final"
            /\ UNCHANGED <<all_failed_commands, i>>
       ELSE /\ consecutive_failures' = consecutive_failures + 1
            /\ all_failed_commands' = all_failed_commands \o ret.failed
            /\ i' = i + 1
            /\ pc' = NextPc
            /\ UNCHANGED success_count
    /\ UNCHANGED <<probe, config, counters, data, execution_log, solved,
                   solution_history, solutions, iteration, ai_response,
                   applyLoc, result, mainLoc, apply_calls, runner_calls,
                   consult_calls, oracle_calls>>

\* variant: the result of the final check is dropped
verify_success_Dropped(run) == FALSE

\* variant: the result of the final check is not looked at
verify_success_Always(run) == TRUE

\* if verify_success: (line 483)
verify_success(run) == run.success

\* the final dependency check after a successful apply (lines 478-494)
FinalCheck ==
    /\ pc = "final"
    /\ \E o \in RunEnv :
         LET run == execute_command(execution_log, "pip check",
                                    "Final dependency check", o)
         IN  /\ execution_log' = run.log
             /\ IF verify_success(run)
                THEN /\ solved' = TRUE
                     /\ result' = Some(TRUE)
                     /\ pc' = "returned"
                     /\ UNCHANGED i
                ELSE /\ i' = i + 1
                     /\ pc' = NextPc
                     /\ UNCHANGED <<solved, result>>
    /\ runner_calls' = runner_calls + 1
    /\ UNCHANGED <<probe, config, counters, data, solution_history, solutions,
                   iteration, consecutive_failures, success_count,
                   all_failed_commands, ai_response, applyLoc, mainLoc,
                   apply_calls, consult_calls, oracle_calls>>

\* the loop after a consultation returned resp (lines 516-553): what the
\* queue and consecutive_failures become and whether the loop breaks
NewSolutions(resp) ==
    IF resp # None /\ "recommended_solutions" \in resp[1].keys
    THEN FilterCommands(resp[1].recommended_solutions)
    ELSE <<>>

StopSignal(resp) ==
    resp # None /\ ~Get(resp[1], "should_continue", TRUE)

BreaksAfterConsultation(resp) ==
    NewSolutions(resp) = <<>> /\ StopSignal(resp)

\* ai_response['root_cause_analysis'][:150] on a value that is not a
\* string (line 525)
InsightsRaise(resp) ==
    "root_cause_analysis" \in resp[1].keys /\ ~resp[1].root_cause_is_str

AfterConsultation(resp) ==
    /\ ai_response' = resp
    /\ IF NewSolutions(resp) # <<>> /\ InsightsRaise(resp)
       THEN /\ pc' = "crashed"
            /\ UNCHANGED <<solutions, consecutive_failures, result>>
       ELSE IF NewSolutions(resp) # <<>>
       THEN /\ solutions' = NewSolutions(resp)
            /\ consecutive_failures' = 0
            /\ pc' = "while"
            /\ UNCHANGED result
       ELSE /\ UNCHANGED <<solutions, consecutive_failures>>
            /\ IF BreaksAfterConsultation(resp)
               THEN /\ result' = Some(FALSE)
                    /\ pc' = "returned"
               ELSE /\ pc' = "while"
                    /\ UNCHANGED result

\* variant: the budget tested with > instead of >=
BudgetExhausted_OffByOne == ai_consultation_count > max_ai_iterations

\* the budget guard of trigger_web_search_consultation (line 169)
BudgetExhausted == ai_consultation_count >= max_ai_iterations

\* variant: the counters are not incremented
SpendBudget_Forgotten(count) == count

\* self.ai_consultation_count += 1, self.web_search_count += 1
\* (lines 173-174)
SpendBudget(count) == count + 1

\* variant: the pass end tests success_count the wrong way round
ShouldConsult_OnSuccess == success_count > 0 /\ HAS_AI

\* variant: the pass end does not test success_count
ShouldConsult_IgnoresSuccess == HAS_AI

\* variant: the pass end does not test HAS_AI
ShouldConsult_IgnoresNoAi == success_count = 0

\* if not success_count and HAS_AI: (line 501)
ShouldConsult == success_count = 0 /\ HAS_AI

\* the end of a pass (lines 500-514, 555-557) and the consultation up to
\* the oracle call (lines 163-174)
AfterFor ==
    /\ pc = "after_for"
    /\ IF ShouldConsult
       THEN /\ consult_calls' = consult_calls + 1
            /\ IF ~HAS_AI \/ BudgetExhausted
               THEN /\ AfterConsultation(None)
                    /\ UNCHANGED counters
               ELSE /\ ai_consultation_count' = SpendBudget(ai_consultation_count)
                    /\ web_search_count' = SpendBudget(web_search_count)
                    /\ pc' = "oracle"
                    /\ UNCHANGED <<solutions, consecutive_failures,
                                   ai_response, result>>
       ELSE /\ UNCHANGED consult_calls
            /\ IF success_count = 0
               THEN /\ result' = Some(FALSE)
                    /\ pc' = "returned"
                    /\ UNCHANGED <<counters, solutions, consecutive_failures,
                                   ai_response>>
               ELSE /\ pc' = "while"
                    /\ UNCHANGED <<counters, solutions, consecutive_failures,
                                   ai_response, result>>
    /\ UNCHANGED <<probe, config, data, execution_log, solved, solution_history,
                   iteration, success_count, all_failed_commands, i,
                   applyLoc, mainLoc, apply_calls, runner_calls,
                   oracle_calls>>

\* the oracle call and the rest of the consultation (lines 285-341), then
\* the loop's use of the result (lines 516-553)
OracleReturn ==
    /\ pc = "oracle"
    /\ \E reply \in OracleEnv : AfterConsultation(ConsultationResult(reply))
    /\ oracle_calls' = oracle_calls + 1
    /\ UNCHANGED <<probe, config, counters, data, execution_log, solved,
                   solution_history, iteration, success_count,
                   all_failed_commands, i, applyLoc, mainLoc, apply_calls,
                   runner_calls, consult_calls>>

\* save_execution_log (lines 574-591)
LogData ==
    [resolution_status |-> IF solved THEN "SOLVED" ELSE "INCOMPLETE",
     ai_consultations |-> ai_consultation_count,
     web_searches |-> web_search_count,
     total_commands |-> Len(execution_log),
     solution_history |-> solution_history,
     execution_log |-> execution_log]

\* main() after the loop returned (lines 655-672)
SaveAndExit ==
    /\ pc = "returned"
    /\ saved_log' = Some(LogData)
    /\ exit_code' = Some(IF result[1] THEN 0 ELSE 1)
    /\ pc' = "exit"
    /\ UNCHANGED <<probe, config, counters, data, execution_log, solved,
                   solution_history, solutions, iteration,
                   consecutive_failures, success_count, all_failed_commands,
                   i, ai_response, applyLoc, result, apply_calls,
                   runner_calls, consult_calls, oracle_calls>>

Next ==
    \/ LoadJson
    \/ WhileHead
    \/ ApplyStart
    \/ ExecUndo
    \/ ExecMain
    \/ ExecVerify
    \/ AfterApply
    \/ FinalCheck
    \/ AfterFor
    \/ OracleReturn
    \/ SaveAndExit

Spec == Init /\ [][Next]_vars

\* The program is one thread: whenever it has a next step it takes it, and
\* every command and every oracle call returns.
FairSpec == Spec /\ WF_vars(Next)

\* ------------------------------------------ the functions on their own
\* One call of execute_command, or one call of safe_json_parse, on any
\* input up to a bounded length, or one call of apply_solution.
MaxOutputLen == 2
MaxTextLen == 5

ReturnCodes == {0, 1, 2}
Outputs == UNION { [1..n -> OutputWords] : n \in 0..MaxOutputLen }
RunnerInputs ==
    { MkOutcome("exit", rc, out) : rc \in ReturnCodes, out \in Outputs }
    \cup { MkOutcome("timeout", 0, <<>>), MkOutcome("oserror", 0, <<>>) }

\* the solutions apply_solution(solution, 1) is called on
ApplyInputs == {SolA, SolB, SolD, SolE, SolG, SolU}

TextTokens == {"{", "}", "[", "]", " ", "x", "next"}
Texts == UNION { [1..n -> TextTokens] : n \in 0..MaxTextLen }

InitCalls ==
    /\ HAS_AI = FALSE
    /\ max_ai_iterations = DefaultMaxAiIterations
    /\ Fields0
    /\ \/ /\ pc = "command"
          /\ \E o \in RunnerInputs : probe = [input |-> o, output |-> None]
          /\ solutions = <<>>
       \/ /\ pc = "text"
          /\ \E t \in Texts : probe = [input |-> t, output |-> None]
          /\ solutions = <<>>
       \/ /\ pc = "apply"
          /\ \E sol \in ApplyInputs : solutions = <<sol>>
          /\ probe = None

\* execute_command(command) (lines 117-161)
CallExecuteCommand ==
    /\ pc = "command"
    /\ LET run == execute_command(execution_log, "cmd", "", probe.input)
       IN  /\ execution_log' = run.log
           /\ probe' = [probe EXCEPT !.output = Some(run.success)]
    /\ runner_calls' = runner_calls + 1
    /\ pc' = "ran"
    /\ UNCHANGED <<config, counters, data, solved, solution_history,
                   solutions, iteration, consecutive_failures, success_count,
                   all_failed_commands, i, ai_response, applyLoc, result,
                   mainLoc, apply_calls, consult_calls, oracle_calls>>

\* safe_json_parse(response_text) (runthis.py lines 32-56)
CallSafeJsonParse ==
    /\ pc = "text"
    /\ probe' = [probe EXCEPT !.output = Some(safe_json_parse(probe.input))]
    /\ pc' = "parsed"
    /\ UNCHANGED <<config, counters, data, execution_log, solved,
                   solution_history, solutions, iteration,
                   consecutive_failures, success_count, all_failed_commands,
                   i, ai_response, applyLoc, result, mainLoc, apply_calls,
                   runner_calls, consult_calls, oracle_calls>>

NextCalls ==
    \/ CallExecuteCommand
    \/ CallSafeJsonParse
    \/ ApplyStart
    \/ ExecUndo
    \/ ExecMain
    \/ ExecVerify

SpecCalls == InitCalls /\ [][NextCalls]_vars

\* ================================================================ claims
Last(seq) == seq[Len(seq)]

Terminal == pc \in {"returned", "exit"}
Applying == pc \in {"undo", "main", "verify"}

C3_PassBound ==
    /\ [](iteration <= max_total_iterations)
    /\ [][ (pc = "while" /\ iteration = max_total_iterations)
           => /\ pc' = "returned"
              /\ result' = Some(FALSE)
              /\ iteration' = iteration
              /\ apply_calls' = apply_calls
              /\ solution_history' = solution_history ]_vars

\* C3 witness: 20 passes without a success, each followed by a consultation
\* that installed a queue, and the loop returned unsolved.
C3_Witness ==
    /\ pc = "returned" /\ result = Some(FALSE) /\ ~solved
    /\ iteration = max_total_iterations
    /\ ai_consultation_count = max_total_iterations
    /\ oracle_calls = max_total_iterations
    /\ apply_calls = max_total_iterations
    /\ solution_history[1].description = "G"
    /\ \A n \in 2..Len(solution_history) :
           solution_history[n].description = "F"
    /\ NewSolutions(ai_response) # <<>>

\* ---------------------------------------------------------------- C4
\* C4 as stated: whenever the last consultation's payload has
\* should_continue = false, the loop has stopped: it returned unsolved, also
\* when the payload carries commands-type solutions.
C4_StopSignalOverrides ==
    ( /\ ai_response # None
      /\ "should_continue" \in ai_response[1].keys
      /\ ai_response[1].should_continue = FALSE )
    => (Terminal /\ result = Some(FALSE))

\* ---------------------------------------------------------------- C5
\* C5 as stated: the loop is about to start another pass after a pass
\* without a success only if the consultation returned at least one
\* commands-type solution; a consultation that returned None or no
\* commands-type solution ends the loop.
C5_FailedConsultationStops ==
    ( /\ pc = "while" /\ iteration >= 1 /\ success_count = 0
      /\ iteration < max_total_iterations /\ ~solved )
    => /\ ai_response # None
       /\ "recommended_solutions" \in ai_response[1].keys
       /\ FilterCommands(ai_response[1].recommended_solutions) # <<>>

\* ---------------------------------------------------------------- C6
\* C6 as stated: a run whose diagnosis has overall_status "success" ends
\* with a success result, the persisted resolution_status SOLVED, no command
\* executed, no apply call and no consultation.
C6_SuccessDiagnosisIsSolved ==
    ( /\ pc = "exit" /\ data # None
      /\ Get(data[1], "overall_status", "") = "success" )
    => /\ result = Some(TRUE)
       /\ saved_log[1].resolution_status = "SOLVED"
       /\ saved_log[1].execution_log = <<>>
       /\ runner_calls = 0
       /\ apply_calls = 0
       /\ consult_calls = 0

\* ---------------------------------------------------------------- C7
\* C7 as stated: at exit, the exit code is 0 if and only if the persisted
\* resolution_status is SOLVED.
C7_ExitCodeAgreesWithStatus ==
    pc = "exit"
    => ((exit_code = Some(0)) <=> (saved_log[1].resolution_status = "SOLVED"))

\* ---------------------------------------------------------------- C8
\* C8: solution_history holds one entry per apply call started, and while
\* an apply runs its commands the last entry is that apply's, so the entry
\* was appended before any of its commands.
C8_OneHistoryEntryPerApply ==
    /\ Len(solution_history) = apply_calls
    /\ (Applying \/ pc = "applied")
       => /\ Last(solution_history).solution_num = i
          /\ Last(solution_history).description = solution.description
          /\ Last(solution_history).commands = Get(solution, "commands", <<>>)

\* C8 witness: the second apply of a run is about to run its first undo
\* command; the only command run so far belongs to the first apply.
C8_Witness ==
    /\ pc = "undo" /\ k = 1
    /\ apply_calls = 2 /\ Len(solution_history) = 2
    /\ runner_calls = 1

\* ---------------------------------------------------------------- C9
\* C9: the two counters are equal and equal the number of oracle calls made
\* (counting the one in flight), whatever each call returned.
C9_BudgetSpentPerAttempt ==
    /\ web_search_count = ai_consultation_count
    /\ ai_consultation_count = oracle_calls + (IF pc = "oracle" THEN 1 ELSE 0)

\* C9 witness: one oracle call was made, it gave nothing usable, and both
\* counters are 1.
C9_Witness ==
    /\ oracle_calls = 1 /\ pc = "while"
    /\ ai_response = None
    /\ ai_consultation_count = 1 /\ web_search_count = 1
    /\ max_ai_iterations > 1

\* ---------------------------------------------------------------- C10
\* C10: without AI no consultation and no oracle call is ever made, and a
\* first pass in which every solution failed has applied each queued
\* solution once and is followed at once by the loop returning unsolved.
C10_NoAiOnePass ==
    /\ [](~HAS_AI => /\ ai_consultation_count = 0 /\ web_search_count = 0
                     /\ oracle_calls = 0 /\ consult_calls = 0
                     /\ pc # "oracle")
    /\ [][ (~HAS_AI /\ pc = "after_for" /\ success_count = 0 /\ iteration = 1)
           => /\ apply_calls = Len(solutions)
              /\ \A n \in 1..Len(solutions) :
                     solution_history[n].description = solutions[n].description
              /\ pc' = "returned"
              /\ result' = Some(FALSE)
              /\ iteration' = 1
              /\ apply_calls' = apply_calls ]_vars

\* C10 witness: without AI, a queue of two failed in the first pass and the
\* loop returned unsolved.
C10_Witness ==
    /\ ~HAS_AI /\ pc = "returned" /\ result = Some(FALSE)
    /\ iteration = 1 /\ success_count = 0
    /\ Len(solutions) = 2 /\ apply_calls = 2
    /\ ai_consultation_count = 0

\* ---------------------------------------------------------------- C11
\* the words that hold a failure marker once lower-cased
MarkedWords == {"error:", "ERROR:", "Failed", "could not", "conflicts"}

\* C11: a command that ran is reported successful exactly when its exit
\* code is 0 and no word of its output holds a failure marker, whatever the
\* case; a run that did not finish is reported failed.
C11_SuccessPredicate ==
    pc = "ran"
    => (probe.output = Some(TRUE)
        <=> /\ probe.input.kind = "exit"
            /\ probe.input.returncode = 0
            /\ \A n \in 1..Len(probe.input.output) :
                   probe.input.output[n] \notin MarkedWords)

\* C11 witness: exit code 0 and an upper-case marker in the output, and the
\* command was reported failed.
C11_Witness ==
    /\ pc = "ran"
    /\ probe.input = MkOutcome("exit", 0, <<"ok", "ERROR:">>)
    /\ probe.output = Some(FALSE)
    /\ Len(execution_log) = 1 /\ ~execution_log[1].success

\* ---------------------------------------------------------------- C12
\* C12: every call of the command runner has added one entry to the
\* execution log: the log is as long as the number of calls made.
C12_EveryInvocationLogged == Len(execution_log) = runner_calls

\* ---------------------------------------------------------------- C13
\* C13: no exception leaves the resolution loop: whatever the diagnosis
\* and the oracle replies, the run is never ended by an exception.
C13_NoExceptionEscapes == data # None => pc # "crashed"

\* ---------------------------------------------------------------- C14
\* C14: whenever the run has ended, however the loop was left, the session
\* log has been written and holds the whole execution log and the whole
\* solution history of the run.
C14_AuditTrailOnEveryExit ==
    pc \in {"exit", "crashed"}
    => /\ saved_log # None
       /\ saved_log[1].execution_log = execution_log
       /\ saved_log[1].solution_history = solution_history

\* ---------------------------------------------------------------- C15
\* no "{" of the text is followed later by a "}"
NoBracePair(text) ==
    ~\E m, n \in 1..Len(text) : m < n /\ text[m] = "{" /\ text[n] = "}"

\* the critical_error sentinel carrying the text
IsSentinelFor(value, text) ==
    /\ value.is_object
    /\ value.overall_status = "critical_error"
    /\ value.recommended_solutions = <<>>
    /\ value.raw_response = text

\* C15 as stated: a text with no brace-delimited substring decodes to the
\* critical_error sentinel carrying the text.
C15_SentinelWithoutBraces ==
    (pc = "parsed" /\ NoBracePair(probe.input))
    => IsSentinelFor(probe.output[1], probe.input)

\* C15 amended: a text with no brace-delimited substring that is not
\* itself well-formed JSON decodes to the critical_error sentinel carrying
\* the text.
C15_SentinelWithoutBracesOrJson ==
    (pc = "parsed" /\ NoBracePair(probe.input) /\ ~JsonLoads(probe.input).ok)
    => IsSentinelFor(probe.output[1], probe.input)

\* C15 witness: both braces occur, the closing one first; the decoder gave
\* the sentinel with the text in it.
C15_Witness ==
    /\ pc = "parsed"
    /\ probe.input = <<"x", "}", "{", "x">>
    /\ probe.output = Some(Sentinel(<<"x", "}", "{", "x">>))

\* ---------------------------------------------------------------- C16
BraceFree(text) == \A n \in 1..Len(text) : text[n] \notin {"{", "}"}
AllSpace(text) == \A n \in 1..Len(text) : IsSpace(text[n])

\* C16 as stated: a text made of a well-formed object with anything before
\* and after it decodes to what the object alone decodes to.
C16_WrapInvariance ==
    pc = "parsed"
    => \A a, b \in 1..Len(probe.input) :
           LET P == SubSeq(probe.input, a, b)
           IN  IsObjectText(P) => probe.output[1] = JsonLoads(P).value

\* C16 amended: the same, for leading and trailing text that holds no brace
\* and is all whitespace or leaves the whole text not well-formed JSON.
C16_WrapInvarianceBraceFree ==
    pc = "parsed"
    => \A a, b \in 1..Len(probe.input) :
           LET P == SubSeq(probe.input, a, b)
               L == SubSeq(probe.input, 1, a - 1)
               T == SubSeq(probe.input, b + 1, Len(probe.input))
           IN  (/\ IsObjectText(P)
                /\ BraceFree(L) /\ BraceFree(T)
                /\ (AllSpace(L) /\ AllSpace(T)) \/ ~JsonLoads(probe.input).ok)
               => probe.output[1] = JsonLoads(P).value

\* C16 witness: an object between two words of prose decoded to the object.
C16_Witness ==
    /\ pc = "parsed"
    /\ probe.input = <<"x", "{", "next", "}", "x">>
    /\ probe.output = Some(ObjectOf("next"))

\* ---------------------------------------------------------------- C17
\* C17: in every pass the solutions are applied in ascending priority: the
\* solution about to be applied has no solution of higher priority value
\* before it in the queue.
C17_PriorityOrderInEveryPass ==
    pc = "apply"
    => \A m \in 1..(i - 1) :
           PriorityKey(solutions[m]) <= PriorityKey(solutions[i])

\* ---------------------------------------------------------------- C18
\* C18: when a consultation returns at least one commands-type solution,
\* the queue becomes exactly those solutions, consecutive_failures becomes
\* 0 and the loop goes on to its next pass.
C18_EscalationReplacesQueue ==
    [][ (pc = "oracle" /\ NewSolutions(ai_response') # <<>>)
        => /\ solutions' = NewSolutions(ai_response')
           /\ consecutive_failures' = 0
           /\ pc' = "while" ]_vars

\* ---------------------------------------------------------------- C19
\* C19: a consultation starts only at the end of a pass, with no success
\* in that pass and with AI available, and the loop then leaves the end of
\* the pass; the oracle is called only within such a consultation; so there
\* is at most one consultation and one oracle call per pass, none before
\* the first pass.
C19_EscalationOnlyAfterTotalFailure ==
    /\ [](/\ oracle_calls <= consult_calls
          /\ consult_calls <= iteration
          /\ (pc = "oracle" => HAS_AI /\ success_count = 0 /\ iteration >= 1))
    /\ [][ /\ (consult_calls' # consult_calls \/ (pc # "oracle" /\ pc' = "oracle"))
              => /\ pc = "after_for"
                 /\ HAS_AI
                 /\ success_count = 0
                 /\ iteration >= 1
                 /\ i > Len(solutions)
                 /\ consult_calls' = consult_calls + 1
                 /\ pc' # "after_for"
           /\ (oracle_calls' # oracle_calls)
              => /\ pc = "oracle"
                 /\ oracle_calls' = oracle_calls + 1
                 /\ pc' # "oracle" ]_vars

\* C19 witness: the second pass also ended without a success and the
\* oracle is being consulted a second time.
C19_Witness ==
    /\ pc = "oracle"
    /\ iteration = 2 /\ consult_calls = 2 /\ oracle_calls = 1
    /\ success_count = 0

\* ---------------------------------------------------------------- C20
VerificationPresent == Get(solution, "verification_command", "") # ""
EndsMain == pc = "main" /\ k = Len(Get(solution, "commands", <<>>))
StartsVerification == pc # "verify" /\ pc' = "verify"
ReturnsUnverified == pc \in {"apply", "undo", "main"} /\ pc' = "applied"

\* the verification command ran: its outcome is the returned success
VerificationDecides ==
    pc = "verify"
    => /\ pc' = "applied"
       /\ runner_calls' = runner_calls + 1
       /\ ret'.success = /\ Len(execution_log') = Len(execution_log) + 1
                         /\ Last(execution_log').command = solution.verification_command
                         /\ Last(execution_log').success

\* within apply_solution solved changes only to TRUE and only by a
\* verification command that succeeded
SolvedOnlyByVerification ==
    (pc \in {"apply", "undo", "main", "verify"} /\ solved' # solved)
    => pc = "verify" /\ solved' /\ ret'.success

\* C20 as stated: the verification command is run exactly when every main
\* command succeeded (none failed, be there any or none) and a
\* verification command is present; its outcome is the returned success;
\* within apply solved is set only by a successful verification.
C20_VerificationGating ==
    [][ /\ StartsVerification
           => EndsMain /\ failed_commands' = <<>> /\ VerificationPresent
        /\ ReturnsUnverified
           => ~(/\ IF pc = "main" THEN failed_commands' = <<>>
                   ELSE Get(solution, "commands", <<>>) = <<>>
                /\ VerificationPresent)
        /\ VerificationDecides
        /\ SolvedOnlyByVerification ]_vars

\* C20 amended: the same for a solution that has at least one main command
\* and whose main commands were run.
C20_VerificationGatingNonEmpty ==
    [][ /\ StartsVerification
           => EndsMain /\ failed_commands' = <<>> /\ VerificationPresent
        /\ ReturnsUnverified
           => ~(EndsMain /\ failed_commands' = <<>> /\ VerificationPresent)
        /\ VerificationDecides
        /\ SolvedOnlyByVerification ]_vars

\* C20 witness: the main command of a solution succeeded, its verification
\* command ran and succeeded, and apply returned success with solved set.
C20_Witness ==
    /\ pc = "applied"
    /\ ret.success /\ solved
    /\ Len(execution_log) = 2
    /\ execution_log[1].command = "a1" /\ execution_log[1].success
    /\ execution_log[2].command = "va" /\ execution_log[2].success
    /\ execution_log[2].description = "Verify solution"

\* ---------------------------------------------------------------- C21
\* the command that just ran was logged as a success
RanOk(cmd) ==
    /\ Len(execution_log') = Len(execution_log) + 1
    /\ Last(execution_log').command = cmd
    /\ Last(execution_log').success

\* C21: the main commands of an applied solution are run one by one in
\* listed order, whatever the earlier ones did; each one that failed, and
\* no other, is added at the end of failedCommands; the call returns them
\* and returns failure when there is any.
C21_MainCommandsAllRun ==
    [][ /\ (pc # "main" /\ pc' = "main") => (k' = 1 /\ failed_commands' = <<>>)
        /\ pc = "main"
           => LET commands == Get(solution, "commands", <<>>)
              IN  /\ runner_calls' = runner_calls + 1
                  /\ failed_commands' =
                        IF RanOk(commands[k]) THEN failed_commands
                        ELSE Append(failed_commands,
                                    [command |-> commands[k], exit_code |-> 1])
                  /\ k < Len(commands) => (pc' = "main" /\ k' = k + 1)
                  /\ k = Len(commands) => pc' \in {"verify", "applied"}
                  /\ pc' = "applied"
                     => /\ ret'.failed = failed_commands'
                        /\ failed_commands' # <<>> => ~ret'.success
        /\ pc = "verify" => ret'.failed = failed_commands ]_vars

\* C21 witness: the first of two main commands failed, the second ran and
\* succeeded, and the call returned failure with the first command alone.
C21_Witness ==
    /\ pc = "applied"
    /\ solution.description = "B"
    /\ Len(execution_log) = 3
    /\ execution_log[2].command = "b1" /\ ~execution_log[2].success
    /\ execution_log[3].command = "b2" /\ execution_log[3].success
    /\ ~ret.success
    /\ ret.failed = <<[command |-> "b1", exit_code |-> 1]>>

\* ---------------------------------------------------------------- C22
\* what apply_solution returns for a commands-type solution that failed
\* with no main command failing: its verification command failed
VerificationFailedOutcome == [success |-> FALSE, failed |-> <<>>]

\* C22: applying a solution that is not commands-type runs none of its
\* main commands and returns something other than what a failed solution
\* returns.
C22_NotApplicableIsNotFailure ==
    (pc = "applied" /\ Get(solution, "solution_type", "") # "commands")
    => /\ \A n \in 1..Len(execution_log) :
              execution_log[n].description = "Undo previous changes"
       /\ ret # VerificationFailedOutcome

\* ---------------------------------------------------------------- C23
\* C23: every solution of the active queue, every solution handed to
\* apply_solution and every solution of the history is commands-type, and
\* no command of the manual action of the diagnosis or of an oracle reply
\* was executed.
C23_OnlyCommandsApplied ==
    /\ \A n \in 1..Len(solutions) :
           Get(solutions[n], "solution_type", "") = "commands"
    /\ pc \in {"apply", "undo", "main", "verify", "applied", "final"}
       => Get(solution, "solution_type", "") = "commands"
    /\ \A n \in 1..Len(solution_history) :
           solution_history[n].description # SolU.description
    /\ \A n \in 1..Len(execution_log) :
           execution_log[n].command
               \notin {"uu", "u1", SolU.verification_command}

\* C23 witness: the diagnosis listed a manual action between two
\* commands-type solutions; the first pass ended with two solutions applied.
C23_Witness ==
    /\ pc = "after_for" /\ iteration = 1
    /\ Len(data[1].recommended_solutions) = 3
    /\ data[1].recommended_solutions[2] = SolU
    /\ Len(solutions) = 2
    /\ apply_calls = 2
    /\ Len(solution_history) = 2

\* ---------------------------------------------------------------- C24
\* C24: the undo commands of an applied solution are run one by one in
\* listed order, whatever each one did, before the first main command; an
\* undo command touches neither failedCommands nor the success the call
\* will return.
C24_UndoBestEffort ==
    [][ /\ (pc # "undo" /\ pc' = "undo") => (pc = "apply" /\ k' = 1)
        /\ (pc # "main" /\ pc' = "main")
           => LET undo_commands == Get(solution, "undo_commands", <<>>)
              IN  \/ pc = "apply" /\ undo_commands = <<>>
                  \/ pc = "undo" /\ k = Len(undo_commands)
        /\ pc = "undo"
           => LET undo_commands == Get(solution, "undo_commands", <<>>)
              IN  /\ runner_calls' = runner_calls + 1
                  /\ Len(execution_log') > Len(execution_log)
                     => Last(execution_log').command = undo_commands[k]
                  /\ failed_commands' = <<>>
                  /\ all_success'
                  /\ ret' = ret
                  /\ k < Len(undo_commands) => (pc' = "undo" /\ k' = k + 1)
                  /\ k = Len(undo_commands)
                     => pc' = IF Get(solution, "solution_type", "") = "commands"
                                 /\ Get(solution, "commands", <<>>) # <<>>
                              THEN "main" ELSE "applied" ]_vars

\* C24 witness: the first of two undo commands failed, the second ran, the
\* main command succeeded, and the call returned success with nothing in
\* failedCommands.
C24_Witness ==
    /\ pc = "applied"
    /\ solution.description = "D"
    /\ Len(execution_log) = 3
    /\ execution_log[1].command = "d1" /\ ~execution_log[1].success
    /\ execution_log[2].command = "d2"
    /\ execution_log[3].command = "d3" /\ execution_log[3].success
    /\ ret = [success |-> TRUE, failed |-> <<>>]

\* ---------------------------------------------------------------- C25
\* C25: a consultation whose payload could not be decoded returns none:
\* what a consultation returned is never the critical_error sentinel, and
\* always carries recommended_solutions.
C25_UnusablePayloadIsFailedConsultation ==
    ai_response # None
    => /\ "recommended_solutions" \in ai_response[1].keys
       /\ ai_response[1].overall_status # "critical_error"

\* ---------------------------------------------------------------- C26
\* a command was run and left no log entry: it timed out or did not launch
Unlogged == runner_calls' = runner_calls + 1 /\ execution_log' = execution_log

\* C26: a command that timed out is a failed command and nothing more: a
\* main command is collected as failed and the next one runs, an undo
\* command is followed by the next command, a verification or final check
\* counts as failed, and the loop neither returns nor is left by an
\* exception.
C26_TimeoutFailsOnlyThatCommand ==
    [][ Unlogged
        => /\ pc' # "crashed"
           /\ result' = result
           /\ solved' = solved
           /\ pc = "undo"
              => LET undo_commands == Get(solution, "undo_commands", <<>>)
                 IN  /\ k < Len(undo_commands) => (pc' = "undo" /\ k' = k + 1)
                     /\ k = Len(undo_commands) => pc' \in {"main", "applied"}
           /\ pc = "main"
              => LET commands == Get(solution, "commands", <<>>)
                 IN  /\ failed_commands' =
                           Append(failed_commands,
                                  [command |-> commands[k], exit_code |-> 1])
                     /\ k < Len(commands) => (pc' = "main" /\ k' = k + 1)
                     /\ k = Len(commands) => (pc' = "applied" /\ ~ret'.success)
           /\ pc = "verify" => (pc' = "applied" /\ ~ret'.success)
           /\ pc = "final" => pc' \in {"apply", "after_for"} ]_vars

\* C26 witness: the first main command of the second solution timed out
\* (three commands were run, two were logged), it was collected as failed
\* and the second main command is about to run.
C26_Witness ==
    /\ pc = "main" /\ k = 2
    /\ solution.description = "B"
    /\ runner_calls = 3
    /\ Len(execution_log) = 2
    /\ execution_log[1].command = "a1"
    /\ execution_log[2].command = "ub"
    /\ failed_commands = <<[command |-> "b1", exit_code |-> 1]>>

\* ---------------------------------------------------------------- C27
\* C27: once the loop has its initial queue, every run in which each
\* command and each oracle call returns comes to the loop returning, and no
\* solution is applied after that.
C27_Termination ==
    /\ (pc = "while") ~> (pc \in {"returned", "exit"})
    /\ [][(pc \in {"returned", "exit"}) => apply_calls' = apply_calls ]_vars

\* ---------------------------------------------------------------- C28
IsPrefix(s, t) == Len(s) <= Len(t) /\ SubSeq(t, 1, Len(s)) = s

\* C28: in every step solution_history and execution_log stay as they are
\* or get entries added at their end.
C28_AppendOnlyLedger ==
    [][ /\ IsPrefix(solution_history, solution_history')
        /\ IsPrefix(execution_log, execution_log') ]_vars

\* C28 witness: two solutions were attempted and three commands logged.
C28_Witness ==
    /\ Len(solution_history) = 2
    /\ Len(execution_log) = 3
    /\ solution_history[1].description # solution_history[2].description

\* ---------------------------------------------------------------- C29
\* C29: when the loop has returned success and the diagnosis did not say
\* "success", the last command run was the final check "pip check", it
\* succeeded, and it followed an apply that returned success.
C29_SuccessOnlyByFinalCheck ==
    (result = Some(TRUE) /\ Get(data[1], "overall_status", "") # "success")
    => /\ execution_log # <<>>
       /\ Last(execution_log).command = "pip check"
       /\ Last(execution_log).description = "Final dependency check"
       /\ Last(execution_log).success
       /\ ret.success
       /\ runner_calls >= 2

\* C29 witness: a solution without verification command succeeded, the
\* final check succeeded, and the run ended with exit code 0.
C29_Witness ==
    /\ pc = "exit" /\ exit_code = Some(0)
    /\ Len(execution_log) = 2
    /\ execution_log[1].command = "g1" /\ execution_log[1].success
    /\ execution_log[2].command = "pip check" /\ execution_log[2].success

\* ---------------------------------------------------------------- C30
\* C30: at the end of a pass with a successful apply and solved still
\* false the loop goes back to its head with the queue, the counters and
\* the result untouched and no consultation made; the next pass, if the cap
\* allows one, starts at the first solution of the same queue.
C30_PassWithUnconfirmedSuccess ==
    [][ /\ (pc = "after_for" /\ success_count > 0 /\ ~solved)
           => /\ pc' = "while"
              /\ UNCHANGED <<solutions, ai_consultation_count,
                             web_search_count, consult_calls, oracle_calls,
                             ai_response, result, consecutive_failures>>
        /\ (pc = "while" /\ success_count > 0 /\ ~solved
                /\ iteration < max_total_iterations)
           => /\ pc' = "apply"
              /\ i' = 1
              /\ iteration' = iteration + 1
              /\ solutions' = solutions ]_vars

\* C30 witness: with AI available, the only solution succeeded in the
\* first pass, the final check failed, no consultation was made and the
\* second pass is about to apply the same solution.
C30_Witness ==
    /\ pc = "apply" /\ iteration = 2 /\ i = 1
    /\ HAS_AI /\ max_ai_iterations > 0
    /\ ~solved
    /\ apply_calls = 1
    /\ Len(execution_log) = 2
    /\ execution_log[1].success
    /\ execution_log[2].command = "pip check" /\ ~execution_log[2].success
    /\ consult_calls = 0 /\ ai_consultation_count = 0

====
